---- MODULE Spec2Model ----
(***************************************************************************)
(* The authentication / authorization core of the task-tracking backend:   *)
(* the users, tasks and comments tables, the access_token cookie of each   *)
(* client, the wall clock, and one action per HTTP handler of auth.py,     *)
(* users.py and tasks.py.  A handler is an operator from the state it      *)
(* finds and its request to the state it leaves and its response; its      *)
(* action applies it.  Every authenticated handler starts with the         *)
(* get_current_user dependency and ends with db.commit().                  *)
(*                                                                         *)
(* Time is counted in ticks of 1/TicksPerSecond second.  jwt.encode stores *)
(* the datetimes "exp" and "iat" as whole-second NumericDates, and         *)
(* jwt.decode compares "exp" with the current time.                        *)
(*                                                                         *)
(* Handlers are plain "def" functions, which the server runs on a thread   *)
(* pool: two requests may interleave between a handler's check and its     *)
(* commit.  pending holds, per client, the request that has passed its     *)
(* check and has not committed yet.                                        *)
(***************************************************************************)
EXTENDS Integers, FiniteSets, Sequences, TLC

VARIABLES users, tasks, comments, cookie, now, resp, pending

vars == <<users, tasks, comments, cookie, now, resp, pending>>

-----------------------------------------------------------------------------
(* Bounds of the model *)

MaxUsers == 2
MaxTasks == 1
MaxComments == 1
TicksPerSecond == 2
MaxPeriods == 1
MaxOffset == 2

-----------------------------------------------------------------------------
(* Program constants and value domains *)

TOKEN_EXPIRE_DAYS == 30
SecondsPerDay == 86400

KEY == "KEY"

USER == "user"
ADMIN == "admin"
SUPERADMIN == "superadmin"
UserRole == {USER, ADMIN, SUPERADMIN}

TODO == "to_do"
DONE == "done"
TaskStatus == {TODO, DONE}

Unset == "unset"

\* No access_token cookie in the request.
NoToken == [sub |-> 0, role |-> Unset, exp |-> 0, iat |-> 0, sig |-> Unset]

Clients == {"c1", "c2"}
Emails == {"root@x.com", "alice@x.com", "bob@x.com"}
Usernames == {"root", "alice"}
Passwords == {"pw1", "pw2"}
Titles == {"t1", "t2"}

Max(S) == CHOOSE x \in S : \A y \in S : y <= x

\* The id the database gives the next inserted row of a table.
NextId(table) == IF DOMAIN table = {} THEN 1 ELSE Max(DOMAIN table) + 1

-----------------------------------------------------------------------------
(* Credential hasher *)

\* Mutant of hash_password: the password is stored as it came.
hash_password_plain(password) == <<"plain", password>>

hash_password(password) == <<"sha256", password>>

verify_password(plain_password, hashed_password) ==
    <<"sha256", plain_password>> = hashed_password

-----------------------------------------------------------------------------
(* Token service *)

TokenLifetime == TOKEN_EXPIRE_DAYS * SecondsPerDay * TicksPerSecond

\* jwt.encode serialises a datetime claim as its whole-second timestamp.
NumericDate(clock) == clock \div TicksPerSecond

\* Mutant of create_token: timedelta(seconds=TOKEN_EXPIRE_DAYS).
create_token_seconds(user_id, role, clock) ==
    [sub |-> user_id,
     role |-> role,
     exp |-> NumericDate(clock + TOKEN_EXPIRE_DAYS * TicksPerSecond),
     iat |-> NumericDate(clock),
     sig |-> KEY]

create_token(user_id, role, clock) ==
    [sub |-> user_id,
     role |-> role,
     exp |-> NumericDate(clock + TokenLifetime),
     iat |-> NumericDate(clock),
     sig |-> KEY]

\* jwt.decode: the signature first, then (unless verify_exp is off) the expiry.
jwt_decode(token, verify_exp, clock) ==
    IF token.sig # KEY THEN "InvalidSignatureError"
    ELSE IF verify_exp /\ token.exp * TicksPerSecond <= clock
         THEN "ExpiredSignatureError"
    ELSE "ok"

\* Mutant of get_current_user: the expiry is not verified.
get_current_user_ignoring_expiry(access_token, db, clock) ==
    IF access_token = NoToken
    THEN [status |-> 401, detail |-> "Not authentificated", id |-> 0]
    ELSE IF jwt_decode(access_token, FALSE, clock) # "ok"
    THEN [status |-> 401, detail |-> "Invalid token", id |-> 0]
    ELSE IF access_token.sub \notin DOMAIN db
    THEN [status |-> 401, detail |-> "User not found", id |-> 0]
    ELSE [status |-> 200, detail |-> "", id |-> access_token.sub]

\* The dependency every authenticated handler runs first.  It reads the
\* cookie and the users table and returns the user row's id, or a 401.
get_current_user(access_token, db, clock) ==
    IF access_token = NoToken
    THEN [status |-> 401, detail |-> "Not authentificated", id |-> 0]
    ELSE IF jwt_decode(access_token, TRUE, clock) # "ok"
    THEN [status |-> 401, detail |-> "Invalid token", id |-> 0]
    ELSE IF access_token.sub \notin DOMAIN db
    THEN [status |-> 401, detail |-> "User not found", id |-> 0]
    ELSE [status |-> 200, detail |-> "", id |-> access_token.sub]

\* Mutant of current_user_row: the role is read from the token's payload.
current_user_row_from_token(db, access_token) ==
    [db[access_token.sub] EXCEPT !.role = access_token.role]

\* user = db.query(User).filter(User.id == user_id).first(); return user
current_user_row(db, access_token) == db[access_token.sub]

-----------------------------------------------------------------------------
(* Persistence: the unique constraints of the tables, checked at commit *)

UsersUnique(db) ==
    \A i, j \in DOMAIN db :
        i # j => /\ db[i].email # db[j].email
                 /\ db[i].username # db[j].username

TasksUnique(tb) ==
    \A i, j \in DOMAIN tb : i # j => tb[i].title # tb[j].title

\* db.query(User).filter(User.email == email).first(): the row's id, 0 for None.
user_by_email(db, email) ==
    IF \E i \in DOMAIN db : db[i].email = email
    THEN CHOOSE i \in DOMAIN db : db[i].email = email
    ELSE 0

\* The state a handler works on.
St == [users |-> users, tasks |-> tasks, comments |-> comments,
       cookie |-> cookie, now |-> now]

\* What a handler leaves: the state and the HTTP response.
Outcome(st, op, c, status, detail) ==
    [st |-> st,
     resp |-> [op |-> op, client |-> c, status |-> status, detail |-> detail]]

\* request.cookies.get("access_token") of client c's request.
access_token_of(c) == IF c \in Clients THEN cookie[c] ELSE NoToken

\* A request is served: the handler's state is committed, and resp keeps the
\* response together with the cookie the request carried.
Respond(out) ==
    /\ users' = out.st.users
    /\ tasks' = out.st.tasks
    /\ comments' = out.st.comments
    /\ cookie' = out.st.cookie
    /\ now' = out.st.now
    /\ resp' = [op |-> out.resp.op, client |-> out.resp.client,
                status |-> out.resp.status, detail |-> out.resp.detail,
                access_token |-> access_token_of(out.resp.client)]

\* A request served in one step, no other request in between.
Handle(out) ==
    /\ Respond(out)
    /\ UNCHANGED pending

-----------------------------------------------------------------------------
(* Initial state: an empty database but for one seeded SUPERADMIN *)

SeedUser ==
    [email |-> "root@x.com", username |-> "root",
     hashed_password |-> hash_password("pw1"), role |-> SUPERADMIN]

\* No request of the client is between its check and its commit.
NoUserData ==
    [email |-> Unset, username |-> Unset, password |-> Unset, role |-> Unset]
NoBody ==
    [email |-> Unset, username |-> Unset, role |-> Unset,
     password |-> [current_password |-> Unset, new_password |-> Unset]]
Idle ==
    [op |-> "none", user_data |-> NoUserData, id |-> 0, user_id |-> 0,
     body |-> NoBody]

Init ==
    /\ users = (1 :> SeedUser)
    /\ tasks = <<>>
    /\ comments = <<>>
    /\ cookie = [c \in Clients |-> NoToken]
    /\ now = 0
    /\ resp = [op |-> "none", client |-> Unset, status |-> 0, detail |-> "",
               access_token |-> NoToken]
    /\ pending = [c \in Clients |-> Idle]

-----------------------------------------------------------------------------
(* auth.py *)

UserCreate ==
    [email : Emails, username : Usernames, password : Passwords,
     role : UserRole \cup {Unset}]

\* Mutant of register_role: the role of the request is stored.
register_role_supplied(user_data) ==
    IF user_data.role = Unset THEN USER ELSE user_data.role

\* User(email=..., username=..., hashed_password=...): role is not passed, so
\* the column default applies.
register_role(user_data) == USER

\* exiting_user = db.query(User).filter(User.email == user_data.email).first()
register_check(st, user_data) == user_by_email(st.users, user_data.email) # 0

\* hash_password, User(...), db.add(user), db.commit()
register_insert(st, user_data) ==
    LET user == [email |-> user_data.email,
                 username |-> user_data.username,
                 hashed_password |-> hash_password(user_data.password),
                 role |-> register_role(user_data)]
        db == (NextId(st.users) :> user) @@ st.users
    IN  IF ~UsersUnique(db)
        THEN Outcome(st, "register", Unset, 500, "IntegrityError")
        ELSE Outcome([st EXCEPT !.users = db], "register", Unset, 200, "")

\* POST /auth/register
register(st, user_data) ==
    IF register_check(st, user_data)
    THEN Outcome(st, "register", Unset, 400, "Email already registered")
    ELSE register_insert(st, user_data)

LoginRequest == [email : Emails, password : Passwords]

\* POST /auth/login
login(st, c, login_data) ==
    LET id == user_by_email(st.users, login_data.email)
    IN  IF \/ id = 0
           \/ ~verify_password(login_data.password, st.users[id].hashed_password)
        THEN Outcome(st, "login", c, 401, "Invalid credentials")
        ELSE LET access_token == create_token(id, st.users[id].role, st.now)
             IN  Outcome([st EXCEPT !.cookie[c] = access_token], "login", c, 200, "")

\* Mutant of refresh_decode: verify_exp left at its default.
refresh_decode_verifying_exp(access_token, clock) ==
    jwt_decode(access_token, TRUE, clock)

\* jwt.decode(access_token, KEY, algorithms=ALGORITHM, options={"verify_exp": False})
refresh_decode(access_token, clock) == jwt_decode(access_token, FALSE, clock)

\* POST /auth/refresh
refresh(st, c) ==
    LET access_token == st.cookie[c]
    IN  IF access_token = NoToken
        THEN Outcome(st, "refresh", c, 401, "No access token")
        ELSE IF refresh_decode(access_token, st.now) # "ok"
        THEN Outcome(st, "refresh", c, 401, "Invalid token")
        ELSE LET new_access_token ==
                     create_token(access_token.sub, access_token.role, st.now)
             IN  Outcome([st EXCEPT !.cookie[c] = new_access_token],
                         "refresh", c, 200, "")

-----------------------------------------------------------------------------
(* schemas.py: a request body keeps, of the fields sent, those the schema     *)
(* declares; a field that was not sent is Unset (model_dump(exclude_unset)).  *)

\* A password change as a client may send it.
NoPassword == [current_password |-> Unset, new_password |-> Unset]
PasswordChange ==
    [current_password : Passwords \cup {Unset}, new_password : Passwords]

\* Mutant of UserUpdate: the schema declares role as well.
UserUpdate_with_role(body) ==
    [email |-> body.email, username |-> body.username, role |-> body.role]

UserUpdate(body) ==
    [email |-> body.email, username |-> body.username]

SUPERADMINUserUpdate(body) ==
    [email |-> body.email, username |-> body.username, role |-> body.role]

\* field in update_data
IsSet(update_data, field) ==
    /\ field \in DOMAIN update_data
    /\ update_data[field] # (IF field = "password" THEN NoPassword ELSE Unset)

\* The JSON bodies a client sends to PUT /users/me and PUT /users/{id}:
\* every body that sets at most two of the four fields.
UserBodies ==
    {body \in [email : Emails \cup {Unset}, username : Usernames \cup {Unset},
               role : UserRole \cup {Unset},
               password : PasswordChange \cup {NoPassword}] :
        Cardinality({f \in DOMAIN body : IsSet(body, f)}) <= 2}

\* The ids a path parameter takes: every row the table can hold and one more.
UserIds == 1..(MaxUsers + 1)
TaskIds == 1..(MaxTasks + 1)

-----------------------------------------------------------------------------
(* users.py *)

\* GET /users/me
get_current_user_profile(st, c) ==
    LET auth == get_current_user(st.cookie[c], st.users, st.now)
    IN  Outcome(st, "get_current_user_profile", c, auth.status, auth.detail)

\* Mutant of delete_cookie: the cookie is left in place.
delete_cookie_kept(st, c) == st

\* Mutant of delete_cookie: every client's cookie is dropped.
delete_cookie_everywhere(st, c) ==
    [st EXCEPT !.cookie = [d \in Clients |-> NoToken]]

\* response.delete_cookie("access_token")
delete_cookie(st, c) == [st EXCEPT !.cookie[c] = NoToken]

\* PUT /users/me
update_current_user(st, c, body) ==
    LET auth == get_current_user(st.cookie[c], st.users, st.now)
        Fail(status, detail) == Outcome(st, "update_current_user", c, status, detail)
    IN  IF auth.status # 200 THEN Fail(401, auth.detail)
        ELSE
        LET current_user == current_user_row(st.users, st.cookie[c])
            update_data == UserUpdate(body)
            updated ==
                [f \in DOMAIN current_user |->
                    IF IsSet(update_data, f) THEN update_data[f]
                    ELSE current_user[f]]
            db == [st.users EXCEPT ![auth.id] = updated]
        IN  IF /\ IsSet(update_data, "email")
               /\ update_data.email # current_user.email
               /\ user_by_email(st.users, update_data.email) # 0
            THEN Fail(400, "Email already registered")
            ELSE IF ~UsersUnique(db)
            THEN Fail(500, "IntegrityError")
            ELSE Outcome(delete_cookie([st EXCEPT !.users = db], c),
                         "update_current_user", c, 200, "")

\* Mutant of superadmin_required: only the USER role is turned away.
superadmin_required_user_only(current_user) == current_user.role = USER

\* if current_user.role != UserRole.SUPERADMIN: raise 403
superadmin_required(current_user) == current_user.role # SUPERADMIN

\* Mutant of own_role_change: the self-update test is left out.
own_role_change_allowed(update_data, is_self_update) == FALSE

\* if 'role' in update_data: if is_self_update: raise 400
own_role_change(update_data, is_self_update) ==
    IsSet(update_data, "role") /\ is_self_update

\* update_user from the target lookup to db.commit(), for the caller whose id
\* the dependency resolved.
update_user_write(st, c, current_user_id, user_id, body) ==
    LET Fail(status, detail) == Outcome(st, "update_user", c, status, detail)
    IN  IF user_id \notin DOMAIN st.users
        THEN Fail(404, "User doesn't exist")
        ELSE
        LET current_user == st.users[current_user_id]
            user == st.users[user_id]
            is_self_update == current_user_id = user_id
            update_data == SUPERADMINUserUpdate(body)
            email_differs ==
                IsSet(update_data, "email") /\ update_data.email # user.email
            existing ==
                IF email_differs THEN user_by_email(st.users, update_data.email)
                ELSE 0
            u1 == IF email_differs
                  THEN [user EXCEPT !.email = update_data.email] ELSE user
            u2 == IF IsSet(update_data, "username")
                  THEN [u1 EXCEPT !.username = update_data.username] ELSE u1
            u3 == IF IsSet(update_data, "role")
                  THEN [u2 EXCEPT !.role = update_data.role] ELSE u2
            u4 == IF IsSet(update_data, "password")
                  THEN [u3 EXCEPT !.hashed_password =
                           hash_password(update_data.password.new_password)]
                  ELSE u3
            db == [st.users EXCEPT ![user_id] = u4]
        IN  IF email_differs /\ existing # 0 /\ existing # user_id
            THEN Fail(400, "Email already registered")
            ELSE IF own_role_change(update_data, is_self_update)
            THEN Fail(400, "Superadmin cannot change own role")
            ELSE IF IsSet(update_data, "password") /\ ~is_self_update
            THEN Fail(400, "Superadmin cannot change other users' passwords")
            ELSE IF /\ IsSet(update_data, "password")
                    /\ ~verify_password(update_data.password.current_password,
                                        current_user.hashed_password)
            THEN Fail(400, "Current password is incorrect")
            ELSE IF ~UsersUnique(db)
            THEN Fail(500, "IntegrityError")
            ELSE Outcome([st EXCEPT !.users = db], "update_user", c, 200, "")

\* The dependency and the role check of update_user: the refusal, or 200 when
\* the handler goes on.
update_user_check(st, c) ==
    LET auth == get_current_user(st.cookie[c], st.users, st.now)
        Fail(status, detail) == Outcome(st, "update_user", c, status, detail)
    IN  IF auth.status # 200 THEN Fail(401, auth.detail)
        ELSE IF superadmin_required(current_user_row(st.users, st.cookie[c]))
        THEN Fail(403, "Superadmin role required")
        ELSE Outcome(st, "update_user", c, 200, "")

\* PUT /users/{user_id}
update_user(st, c, user_id, body) ==
    LET checked == update_user_check(st, c)
    IN  IF checked.resp.status # 200 THEN checked
        ELSE update_user_write(st, c, st.cookie[c].sub, user_id, body)

-----------------------------------------------------------------------------
(* tasks.py *)

\* The bodies of POST /tasks/: assignee_id 0 stands for null / not sent.
TaskCreate ==
    [title : Titles, status : {Unset}, assignee_id : 0..(MaxUsers + 1)]

\* The bodies of PUT /tasks/{task_id}: the fields sent are the record's fields.
TaskUpdate ==
    {[title |-> t] : t \in Titles}
        \cup {[status |-> s] : s \in TaskStatus}
        \cup {[title |-> t, status |-> s] : t \in Titles, s \in TaskStatus}

\* Mutant of admin_required: ADMIN is turned away too.
admin_required_superadmin_only(current_user) == current_user.role # SUPERADMIN

\* Mutant of admin_required: the membership test inverted.
admin_required_inverted(current_user) == current_user.role \in {ADMIN, SUPERADMIN}

\* if current_user.role not in [UserRole.ADMIN, UserRole.SUPERADMIN]: raise 403
admin_required(current_user) == current_user.role \notin {ADMIN, SUPERADMIN}

\* Mutant of access_denied: ownership read from the assignee, not the author.
access_denied_by_assignee(current_user_id, current_user, task) ==
    current_user.role = ADMIN /\ task.assignee_id # current_user_id

\* if current_user.role == UserRole.ADMIN and task.author_id != current_user.id
access_denied(current_user_id, current_user, task) ==
    current_user.role = ADMIN /\ task.author_id # current_user_id

\* POST /tasks/
create_task(st, c, task_data) ==
    LET auth == get_current_user(st.cookie[c], st.users, st.now)
        Fail(status, detail) == Outcome(st, "create_task", c, status, detail)
    IN  IF auth.status # 200 THEN Fail(401, auth.detail)
        ELSE IF admin_required(current_user_row(st.users, st.cookie[c]))
        THEN Fail(403, "Admin role required")
        ELSE IF task_data.assignee_id \notin DOMAIN st.users
        THEN Fail(422, "Assignee user doesn't exists")
        ELSE
        LET taskdb == [title |-> task_data.title,
                       status |-> IF task_data.status = Unset THEN TODO
                                  ELSE task_data.status,
                       assignee_id |-> task_data.assignee_id,
                       author_id |-> auth.id]
            tb == (NextId(st.tasks) :> taskdb) @@ st.tasks
        IN  IF ~TasksUnique(tb) THEN Fail(500, "IntegrityError")
            ELSE Outcome([st EXCEPT !.tasks = tb], "create_task", c, 200, "")

\* PUT /tasks/{task_id}
update_task(st, c, task_id, up_task) ==
    LET auth == get_current_user(st.cookie[c], st.users, st.now)
        Fail(status, detail) == Outcome(st, "update_task", c, status, detail)
    IN  IF auth.status # 200 THEN Fail(401, auth.detail)
        ELSE IF admin_required(current_user_row(st.users, st.cookie[c]))
        THEN Fail(403, "Admin role required")
        ELSE IF task_id \notin DOMAIN st.tasks
        THEN Fail(404, "Task not found")
        ELSE IF access_denied(auth.id, current_user_row(st.users, st.cookie[c]), st.tasks[task_id])
        THEN Fail(403, "Access denied")
        ELSE
        LET task == st.tasks[task_id]
            updated == [key \in DOMAIN task |->
                           IF key \in DOMAIN up_task THEN up_task[key]
                           ELSE task[key]]
            tb == [st.tasks EXCEPT ![task_id] = updated]
        IN  IF ~TasksUnique(tb) THEN Fail(500, "IntegrityError")
            ELSE Outcome([st EXCEPT !.tasks = tb], "update_task", c, 200, "")

\* db.delete(task)
Remove(table, id) == [i \in DOMAIN table \ {id} |-> table[i]]

\* DELETE /tasks/{task_id}
delete_task(st, c, task_id) ==
    LET auth == get_current_user(st.cookie[c], st.users, st.now)
        Fail(status, detail) == Outcome(st, "delete_task", c, status, detail)
    IN  IF auth.status # 200 THEN Fail(401, auth.detail)
        ELSE IF admin_required(current_user_row(st.users, st.cookie[c]))
        THEN Fail(403, "Admin role required")
        ELSE IF task_id \notin DOMAIN st.tasks
        THEN Fail(404, "Task doesn't exists")
        ELSE IF access_denied(auth.id, current_user_row(st.users, st.cookie[c]), st.tasks[task_id])
        THEN Fail(403, "Access denied")
        ELSE Outcome([st EXCEPT !.tasks = Remove(st.tasks, task_id)],
                     "delete_task", c, 200, "")

\* POST /tasks/{task_id}/comments
comment_to_task(st, c, task_id) ==
    LET auth == get_current_user(st.cookie[c], st.users, st.now)
    IN  IF auth.status # 200
        THEN Outcome(st, "comment_to_task", c, 401, auth.detail)
        ELSE LET comment == [task_id |-> task_id, author_id |-> auth.id]
                 cm == (NextId(st.comments) :> comment) @@ st.comments
             IN  Outcome([st EXCEPT !.comments = cm], "comment_to_task", c, 200, "")

-----------------------------------------------------------------------------
(* Actions: one per handler, each a request of client c *)

PostRegister(user_data) ==
    /\ NextId(users) <= MaxUsers
    /\ Handle(register(St, user_data))

PostLogin(c, login_data) ==
    /\ c \in Clients
    /\ Handle(login(St, c, login_data))

PostRefresh(c) ==
    /\ c \in Clients
    /\ Handle(refresh(St, c))

GetMe(c) ==
    /\ c \in Clients
    /\ Handle(get_current_user_profile(St, c))

PutMe(c, body) ==
    /\ c \in Clients
    /\ Handle(update_current_user(St, c, body))

PutUser(c, user_id, body) ==
    /\ c \in Clients
    /\ Handle(update_user(St, c, user_id, body))

PostTask(c, task_data) ==
    /\ NextId(tasks) <= MaxTasks
    /\ Handle(create_task(St, c, task_data))

PutTask(c, task_id, up_task) ==
    /\ c \in Clients
    /\ Handle(update_task(St, c, task_id, up_task))

DeleteTask(c, task_id) ==
    /\ c \in Clients
    /\ Handle(delete_task(St, c, task_id))

PostComment(c, task_id) ==
    /\ NextId(comments) <= MaxComments
    /\ Handle(comment_to_task(St, c, task_id))

-----------------------------------------------------------------------------
(* Requests that other requests overtake between their check and commit *)

\* register up to the existence check: the request is refused, or goes on.
RegisterCheck(c, user_data) ==
    /\ pending[c] = Idle
    /\ NextId(users)
         + Cardinality({d \in Clients :
                           /\ pending[d].op = "register"
                           /\ pending[d].user_data.email # user_data.email})
           <= MaxUsers
    /\ IF register_check(St, user_data)
       THEN Handle(register(St, user_data))
       ELSE /\ pending' = [pending EXCEPT ![c] =
                              [Idle EXCEPT !.op = "register",
                                           !.user_data = user_data]]
            /\ UNCHANGED <<users, tasks, comments, cookie, now, resp>>

\* register from hash_password to db.commit().
RegisterInsert(c) ==
    /\ pending[c].op = "register"
    /\ Respond(register_insert(St, pending[c].user_data))
    /\ pending' = [pending EXCEPT ![c] = Idle]

\* update_user up to the role check: the request is refused, or goes on with
\* the current_user the dependency loaded.
UpdateUserCheck(c, user_id, body) ==
    /\ pending[c] = Idle
    /\ IF update_user_check(St, c).resp.status # 200
       THEN Handle(update_user_check(St, c))
       ELSE /\ pending' = [pending EXCEPT ![c] =
                              [Idle EXCEPT !.op = "update_user",
                                           !.id = cookie[c].sub,
                                           !.user_id = user_id,
                                           !.body = body]]
            /\ UNCHANGED <<users, tasks, comments, cookie, now, resp>>

\* update_user from the target lookup to db.commit().
UpdateUserWrite(c) ==
    /\ pending[c].op = "update_user"
    /\ Respond(update_user_write(St, c, pending[c].id, pending[c].user_id,
                                 pending[c].body))
    /\ pending' = [pending EXCEPT ![c] = Idle]

-----------------------------------------------------------------------------
(* Specification of the account handlers, one client *)

Next ==
    \/ \E user_data \in UserCreate : PostRegister(user_data)
    \/ \E login_data \in LoginRequest : PostLogin("c1", login_data)
    \/ \E body \in {b \in UserBodies : b.password = NoPassword} : PutMe("c1", body)
    \/ \E user_id \in UserIds, body \in UserBodies : PutUser("c1", user_id, body)

Spec == Init /\ [][Next]_vars

-----------------------------------------------------------------------------
(* Specification of the task handlers: users register, log in and have      *)
(* their role set by a SUPERADMIN; every task request is made.              *)

RoleBodies ==
    {body \in UserBodies :
        {f \in DOMAIN body : IsSet(body, f)} = {"role"}}

NextTasks ==
    \/ \E user_data \in {u \in UserCreate :
                            /\ u.password = "pw1"
                            /\ u.role = Unset
                            /\ <<u.email, u.username>> \in
                                  {<<"alice@x.com", "alice">>}} :
           PostRegister(user_data)
    \/ \E login_data \in {l \in LoginRequest : l.password = "pw1"} :
           PostLogin("c1", login_data)
    \/ \E user_id \in UserIds, body \in RoleBodies : PutUser("c1", user_id, body)
    \/ \E task_data \in TaskCreate : PostTask("c1", task_data)
    \/ \E task_id \in TaskIds, up_task \in TaskUpdate : PutTask("c1", task_id, up_task)
    \/ \E task_id \in TaskIds : DeleteTask("c1", task_id)

SpecTasks == Init /\ [][NextTasks]_vars

-----------------------------------------------------------------------------
(* Specification of the session: time passes, the client sends whatever      *)
(* cookie it likes, the admin panel deletes users.                           *)

\* The instants the clock is read at: around every multiple of the lifetime.
ClockSamples ==
    {t \in {k * TokenLifetime + j :
               k \in 0..MaxPeriods, j \in (0 - MaxOffset)..MaxOffset} : t >= 0}

Tick(t) ==
    /\ t > now
    /\ now' = t
    /\ UNCHANGED <<users, tasks, comments, cookie, resp, pending>>

\* Tokens not signed with KEY, whatever they claim.
ForgedTokens ==
    [sub : 1..MaxUsers, role : {SUPERADMIN},
     exp : {NumericDate((MaxPeriods + 2) * TokenLifetime)}, iat : {0},
     sig : {"forged"}]

\* The cookie jar is the client's: it may drop the cookie or send a forged one.
ClientSetsCookie(c, token) ==
    /\ cookie[c] # token
    /\ cookie' = [cookie EXCEPT ![c] = token]
    /\ UNCHANGED <<users, tasks, comments, now, resp, pending>>

\* The admin panel's ModelView(User): a row is deleted.
AdminDeleteUser(user_id) ==
    /\ user_id \in DOMAIN users
    /\ users' = Remove(users, user_id)
    /\ UNCHANGED <<tasks, comments, cookie, now, resp, pending>>

NextToken ==
    \/ \E user_data \in {u \in UserCreate :
                            /\ u.password = "pw1"
                            /\ u.role = Unset
                            /\ u.email = "alice@x.com"
                            /\ u.username = "alice"} :
           PostRegister(user_data)
    \/ \E login_data \in {l \in LoginRequest : l.email # "bob@x.com"} :
           PostLogin("c1", login_data)
    \/ PostRefresh("c1")
    \/ GetMe("c1")
    \/ \E t \in ClockSamples : Tick(t)
    \/ \E token \in ForgedTokens \cup {NoToken} : ClientSetsCookie("c1", token)
    \/ \E user_id \in UserIds : AdminDeleteUser(user_id)

SpecToken == Init /\ [][NextToken]_vars

-----------------------------------------------------------------------------
(* Specification of concurrent requests: two clients register, log in and    *)
(* set roles, and the steps of their requests interleave.                    *)

NextRace ==
    \/ \E c \in Clients :
           \E user_data \in {u \in UserCreate :
                                 /\ u.email = "alice@x.com"
                                 /\ u.username = "alice"
                                 /\ u.password = "pw1"
                                 /\ u.role = Unset} :
               RegisterCheck(c, user_data)
    \/ \E c \in Clients : RegisterInsert(c)
    \/ PostLogin("c1", [email |-> "root@x.com", password |-> "pw1"])
    \/ PostLogin("c2", [email |-> "alice@x.com", password |-> "pw1"])
    \/ \E c \in Clients, user_id \in 1..MaxUsers :
           \E body \in {b \in RoleBodies : b.role # ADMIN} :
               UpdateUserCheck(c, user_id, body)
    \/ \E c \in Clients : UpdateUserWrite(c)

SpecRace == Init /\ [][NextRace]_vars

-----------------------------------------------------------------------------
(* Specification of role changes: the SUPERADMIN works on client c1, a       *)
(* registered user on client c2 keeps the token of an earlier login while    *)
(* the stored role changes.                                                  *)

NextRoles ==
    \/ PostRegister([email |-> "alice@x.com", username |-> "alice",
                     password |-> "pw1", role |-> Unset])
    \/ PostLogin("c1", [email |-> "root@x.com", password |-> "pw1"])
    \/ PostLogin("c2", [email |-> "alice@x.com", password |-> "pw1"])
    \/ PostRefresh("c2")
    \/ \E c \in Clients, body \in RoleBodies : PutUser(c, 2, body)
    \/ \E c \in Clients :
           \E task_data \in {t \in TaskCreate : t.assignee_id = 1} :
               PostTask(c, task_data)
    \/ \E task_id \in TaskIds : PutTask("c2", task_id, [status |-> DONE])
    \/ \E task_id \in TaskIds : DeleteTask("c2", task_id)

SpecRoles == Init /\ [][NextRoles]_vars

-----------------------------------------------------------------------------
(* Specification of comments: logged-in users create, change and delete      *)
(* tasks and comment on task ids.                                            *)

NextComments ==
    \/ PostRegister([email |-> "alice@x.com", username |-> "alice",
                     password |-> "pw1", role |-> Unset])
    \/ PostLogin("c1", [email |-> "root@x.com", password |-> "pw1"])
    \/ PostLogin("c2", [email |-> "alice@x.com", password |-> "pw1"])
    \/ \E task_data \in {t \in TaskCreate : t.assignee_id = 1} :
           PostTask("c1", task_data)
    \/ \E task_id \in TaskIds : PutTask("c1", task_id, [status |-> DONE])
    \/ \E task_id \in TaskIds : DeleteTask("c1", task_id)
    \/ \E c \in Clients, task_id \in TaskIds : PostComment(c, task_id)

SpecComments == Init /\ [][NextComments]_vars

-----------------------------------------------------------------------------
(* Specification of a shared token: the token a login set on client c1 is    *)
(* also held by client c2, the owner updates the profile, time passes.       *)

\* The token is a bearer string: whoever got hold of it may present it.
CopyCookie(from, to) ==
    /\ cookie[from] # NoToken
    /\ cookie[to] # cookie[from]
    /\ cookie' = [cookie EXCEPT ![to] = cookie[from]]
    /\ UNCHANGED <<users, tasks, comments, now, resp, pending>>

NextSession ==
    \/ \E login_data \in {l \in LoginRequest : l.password = "pw1"} :
           PostLogin("c1", login_data)
    \/ CopyCookie("c1", "c2")
    \/ \E body \in {b \in UserBodies :
                        /\ b.role = Unset
                        /\ b.password = NoPassword
                        /\ b.email # "alice@x.com"} :
           PutMe("c1", body)
    \/ GetMe("c2")
    \/ \E t \in ClockSamples : Tick(t)

SpecSession == Init /\ [][NextSession]_vars

-----------------------------------------------------------------------------
(* Properties of the task handlers, checked under SpecTasks *)

\* The row of the authenticated caller of a request of client c.
Caller(c) == users[get_current_user(cookie[c], users, now).id]
Authenticated(c) == get_current_user(cookie[c], users, now).status = 200

\* The caller may modify or delete the task: the stored role is SUPERADMIN, or
\* it is ADMIN and the caller authored the task.
MayMutateTask(c, task_id) ==
    \/ Caller(c).role = SUPERADMIN
    \/ /\ Caller(c).role = ADMIN
       /\ tasks[task_id].author_id = get_current_user(cookie[c], users, now).id

\* C1: for every stored task and every authenticated actor, update_task and
\* delete_task change or remove the task only if the actor's stored role is
\* SUPERADMIN, or it is ADMIN and the actor authored the task; an ADMIN acting
\* on somebody else's task and any USER get 403 and the state is left as it was.
C1_TaskMutationNeedsOwnership ==
    \A c \in Clients, task_id \in DOMAIN tasks :
        Authenticated(c) =>
            /\ \A up_task \in TaskUpdate :
                   LET out == update_task(St, c, task_id, up_task)
                   IN  /\ out.st.tasks # tasks => MayMutateTask(c, task_id)
                       /\ ~MayMutateTask(c, task_id) =>
                              out.resp.status = 403 /\ out.st = St
            /\ LET out == delete_task(St, c, task_id)
               IN  /\ out.st.tasks # tasks => MayMutateTask(c, task_id)
                   /\ ~MayMutateTask(c, task_id) =>
                          out.resp.status = 403 /\ out.st = St
                   /\ MayMutateTask(c, task_id) =>
                          task_id \notin DOMAIN out.st.tasks

\* C1 witness: an ADMIN's update of a task authored by somebody else was met
\* with 403 "Access denied", and the task is still stored.
C1_Witness ==
    /\ resp.op \in {"update_task", "delete_task"}
    /\ resp.status = 403
    /\ resp.detail = "Access denied"
    /\ Authenticated(resp.client)
    /\ Caller(resp.client).role = ADMIN
    /\ \E task_id \in DOMAIN tasks :
           tasks[task_id].author_id # cookie[resp.client].sub

\* C6: create_task stores a new task only when the caller's stored role is ADMIN
\* or SUPERADMIN and the assignee is a registered user; a USER gets 403, a
\* missing assignee gets 422, neither adds a task; a stored task's author_id is
\* the caller's id.
C6_CreateTaskPolicy ==
    \A c \in Clients, task_data \in TaskCreate :
        Authenticated(c) =>
            LET out == create_task(St, c, task_data)
                id == get_current_user(cookie[c], users, now).id
                role == Caller(c).role
                assignee_exists == task_data.assignee_id \in DOMAIN users
            IN  /\ out.st.tasks # tasks =>
                       /\ role \in {ADMIN, SUPERADMIN}
                       /\ assignee_exists
                /\ role = USER => out.resp.status = 403 /\ out.st = St
                /\ role # USER /\ ~assignee_exists =>
                       out.resp.status = 422 /\ out.st = St
                /\ out.resp.status = 200 =>
                       /\ DOMAIN out.st.tasks = DOMAIN tasks \cup {NextId(tasks)}
                       /\ \A i \in DOMAIN tasks : out.st.tasks[i] = tasks[i]
                       /\ out.st.tasks[NextId(tasks)].author_id = id
                       /\ out.st.tasks[NextId(tasks)].assignee_id =
                              task_data.assignee_id
                /\ out.resp.status # 200 => out.st = St

\* C6 witness: an ADMIN created a task, stored with the ADMIN as its author.
C6_Witness ==
    /\ resp.op = "create_task"
    /\ resp.status = 200
    /\ Authenticated(resp.client)
    /\ Caller(resp.client).role = ADMIN
    /\ \E task_id \in DOMAIN tasks :
           tasks[task_id].author_id = cookie[resp.client].sub

-----------------------------------------------------------------------------
(* Properties of the account handlers, checked under Spec *)

CallerId(c) == get_current_user(cookie[c], users, now).id

\* C2: update_user called by an actor whose stored role is not SUPERADMIN fails
\* with 403, whether or not the target id exists, and leaves every stored user
\* (and everything else) unchanged.
C2_UpdateUserNeedsSuperadmin ==
    \A c \in Clients, user_id \in UserIds, body \in UserBodies :
        Authenticated(c) /\ Caller(c).role # SUPERADMIN =>
            LET out == update_user(St, c, user_id, body)
            IN  out.resp.status = 403 /\ out.st = St

\* C2 witness: a logged-in ADMIN or USER called update_user and got 403.
C2_Witness ==
    /\ resp.op = "update_user"
    /\ resp.status = 403
    /\ Authenticated(resp.client)
    /\ Caller(resp.client).role # SUPERADMIN

\* The body carries an email (a username) that a user other than the target holds.
EmailHeldByOther(body, user_id) ==
    /\ body.email # Unset
    /\ \E i \in DOMAIN users \ {user_id} : users[i].email = body.email
UsernameHeldByOther(body, user_id) ==
    /\ body.username # Unset
    /\ \E i \in DOMAIN users \ {user_id} : users[i].username = body.username

\* C3 as stated: a SUPERADMIN's update_user request that supplies a role for
\* their own id fails with 400 "Superadmin cannot change own role" and their
\* role stays SUPERADMIN; the same request for another existing user succeeds
\* and sets that user's role to the supplied value.
C3_OwnRoleChange_AsStated ==
    \A c \in Clients, body \in UserBodies :
        Authenticated(c) /\ Caller(c).role = SUPERADMIN /\ body.role # Unset =>
            /\ LET out == update_user(St, c, CallerId(c), body)
               IN  /\ out.resp.status = 400
                   /\ out.resp.detail = "Superadmin cannot change own role"
                   /\ out.st.users[CallerId(c)].role = SUPERADMIN
            /\ \A user_id \in DOMAIN users \ {CallerId(c)} :
                   LET out == update_user(St, c, user_id, body)
                   IN  /\ out.resp.status = 200
                       /\ out.st.users[user_id].role = body.role

\* C3 as amended: the own-id request fails with 400 and the role stays
\* SUPERADMIN, the error being "Superadmin cannot change own role" unless the
\* request also carries an email another user holds, which is refused first
\* with "Email already registered"; the request for another existing user
\* succeeds and sets the role unless it carries an email or a username another
\* user holds, and then it fails and changes nothing.
C3_OwnRoleChange ==
    \A c \in Clients, body \in UserBodies :
        Authenticated(c) /\ Caller(c).role = SUPERADMIN /\ body.role # Unset =>
            /\ LET out == update_user(St, c, CallerId(c), body)
               IN  /\ out.resp.status = 400
                   /\ out.resp.detail =
                          IF EmailHeldByOther(body, CallerId(c))
                          THEN "Email already registered"
                          ELSE "Superadmin cannot change own role"
                   /\ out.st = St
            /\ \A user_id \in DOMAIN users \ {CallerId(c)} :
                   LET out == update_user(St, c, user_id, body)
                   IN  IF \/ EmailHeldByOther(body, user_id)
                          \/ UsernameHeldByOther(body, user_id)
                       THEN out.resp.status \in {400, 500} /\ out.st = St
                       ELSE /\ out.resp.status = 200
                            /\ out.st.users[user_id].role = body.role

\* C3 witness: a SUPERADMIN's request on their own id was refused with the
\* role-change error, and they are still SUPERADMIN.
C3_Witness ==
    /\ resp.op = "update_user"
    /\ resp.status = 400
    /\ resp.detail = "Superadmin cannot change own role"
    /\ Authenticated(resp.client)
    /\ Caller(resp.client).role = SUPERADMIN

\* C4 as stated: a SUPERADMIN's update_user request that supplies a password
\* for a target other than themself fails with an error response, with or
\* without a current password, and the target's password hash is unchanged.
C4_OtherPasswordChangeFails ==
    \A c \in Clients, body \in UserBodies :
        Authenticated(c) /\ Caller(c).role = SUPERADMIN
                         /\ body.password # NoPassword =>
            \A user_id \in DOMAIN users \ {CallerId(c)} :
                LET out == update_user(St, c, user_id, body)
                IN  /\ out.resp.status >= 400
                    /\ out.st.users[user_id].hashed_password =
                           users[user_id].hashed_password

\* C5 as stated: when a SUPERADMIN calls update_user on their own id with a
\* password change (and nothing else), the stored hash becomes
\* hash(new_password) if the current password verifies, and login then succeeds
\* with the new password and fails with the old one; otherwise the request
\* fails with "Current password is incorrect" and the hash is unchanged.
C5_OwnPasswordChange ==
    \A c \in Clients, body \in UserBodies :
        /\ Authenticated(c)
        /\ Caller(c).role = SUPERADMIN
        /\ {f \in DOMAIN body : IsSet(body, f)} = {"password"}
        => LET id == CallerId(c)
               out == update_user(St, c, id, body)
               old == body.password.current_password
               new == body.password.new_password
               Login(password) ==
                   login(out.st, c, [email |-> users[id].email,
                                     password |-> password]).resp.status
           IN  IF verify_password(old, users[id].hashed_password)
               THEN /\ out.resp.status = 200
                    /\ out.st.users[id].hashed_password = hash_password(new)
                    /\ Login(new) = 200
                    /\ new # old => Login(old) = 401
               ELSE /\ out.resp.status = 400
                    /\ out.resp.detail = "Current password is incorrect"
                    /\ out.st = St

\* C7: for every (email, username, password) whose email and username are not
\* taken, register followed by login with the same email and password
\* succeeds, and the token issued verifies and carries the id of the user just
\* registered and the default role USER.
C7_RegisterThenLogin ==
    \A c \in Clients, user_data \in UserCreate :
        /\ \A i \in DOMAIN users :
               /\ users[i].email # user_data.email
               /\ users[i].username # user_data.username
        => LET reg == register(St, user_data)
               log == login(reg.st, c, [email |-> user_data.email,
                                        password |-> user_data.password])
               token == log.st.cookie[c]
               who == get_current_user(token, log.st.users, log.st.now)
           IN  /\ reg.resp.status = 200
               /\ log.resp.status = 200
               /\ jwt_decode(token, TRUE, log.st.now) = "ok"
               /\ who.status = 200
               /\ who.id \notin DOMAIN users
               /\ log.st.users[who.id].email = user_data.email
               /\ token.sub = who.id
               /\ token.role = USER

\* C7 witness: a user registered through the API (not the seeded one) logged
\* in, and the cookie holds a token with that user's id and role USER.
C7_Witness ==
    /\ resp.op = "login"
    /\ resp.status = 200
    /\ cookie[resp.client].sub # 1
    /\ cookie[resp.client].sub \in DOMAIN users
    /\ users[cookie[resp.client].sub].hashed_password \in
           {hash_password(p) : p \in Passwords}
    /\ cookie[resp.client].role = USER

-----------------------------------------------------------------------------
(* Properties of the session, checked under SpecToken *)

\* The instant, in ticks, at which a token's embedded "exp" is reached.
ExpiryInstant(token) == token.exp * TicksPerSecond

\* The tokens create_token issues in this state: by a login, by a refresh.
IssuedNow ==
    UNION {{login(St, c, login_data).st.cookie[c] :
               login_data \in {l \in LoginRequest :
                                  login(St, c, l).resp.status = 200}}
           \cup (IF refresh(St, c).resp.status = 200
                 THEN {refresh(St, c).st.cookie[c]}
                 ELSE {}) : c \in Clients}

\* No request is authenticated with a token whose embedded expiry has come.
NoExpiredTokenAdmitted ==
    \A c \in Clients :
        get_current_user_profile(St, c).resp.status = 200 =>
            /\ cookie[c].sig = KEY
            /\ now < ExpiryInstant(cookie[c])

\* C8 as stated: a token created at time t (now) is accepted by
\* get_current_user, for an existing subject, at every time before
\* t + TOKEN_EXPIRE_DAYS and rejected with 401 at every time after it; no
\* request is authenticated with an expired token.
C8_TokenLifetime_AsStated ==
    /\ \A token \in IssuedNow, t \in ClockSamples :
           token.sub \in DOMAIN users /\ t >= now =>
               LET who == get_current_user(token, users, t)
               IN  /\ t < now + TokenLifetime => who.status = 200
                   /\ t > now + TokenLifetime => who.status = 401
    /\ NoExpiredTokenAdmitted

\* C8 as amended: the token is accepted at every time before its embedded
\* expiry, which is t + TOKEN_EXPIRE_DAYS rounded down to a whole second, and
\* rejected with 401 "Invalid token" from that instant on, hence at every time
\* after t + TOKEN_EXPIRE_DAYS; no request is authenticated with an expired
\* token.
C8_TokenLifetime ==
    /\ \A token \in IssuedNow :
           /\ ExpiryInstant(token) <= now + TokenLifetime
           /\ ExpiryInstant(token) > now + TokenLifetime - TicksPerSecond
           /\ \A t \in ClockSamples :
                  token.sub \in DOMAIN users /\ t >= now =>
                      LET who == get_current_user(token, users, t)
                      IN  /\ t < ExpiryInstant(token) => who.status = 200
                          /\ t >= ExpiryInstant(token) =>
                                 /\ who.status = 401
                                 /\ who.detail = "Invalid token"
    /\ NoExpiredTokenAdmitted

\* C8 witness: a request carrying a validly signed token of a stored user was
\* refused with 401 because the token had expired.
C8_Witness ==
    /\ resp.op = "get_current_user_profile"
    /\ resp.status = 401
    /\ resp.detail = "Invalid token"
    /\ resp.access_token.sig = KEY
    /\ resp.access_token.sub \in DOMAIN users
    /\ cookie[resp.client] = resp.access_token
    /\ now >= ExpiryInstant(resp.access_token)

EmptyBody ==
    [email |-> Unset, username |-> Unset, role |-> Unset,
     password |-> NoPassword]
SingleFieldBodies ==
    {EmptyBody}
    \cup {[EmptyBody EXCEPT !.email = e] : e \in Emails}
    \cup {[EmptyBody EXCEPT !.username = u] : u \in Usernames}
    \cup {[EmptyBody EXCEPT !.role = r] : r \in UserRole}
    \cup {[EmptyBody EXCEPT !.password = p] : p \in PasswordChange}

-----------------------------------------------------------------------------
(* Properties of concurrent requests, checked under SpecRace *)

\* C11 as stated: of two register requests with the same email whose check
\* and insert steps interleave, one stores the user and the other, which
\* reaches its insert when the email is already stored, ends with 400
\* "Email already registered" and stores nothing.
C11_ConcurrentRegister ==
    /\ UsersUnique(users)
    /\ \A c \in Clients :
           /\ pending[c].op = "register"
           /\ user_by_email(users, pending[c].user_data.email) # 0
           => LET out == register_insert(St, pending[c].user_data)
              IN  /\ out.st = St
                  /\ out.resp.status = 400
                  /\ out.resp.detail = "Email already registered"

\* C20 as stated: the store that holds a SUPERADMIN holds one after every
\* sequence of requests, interleaved update_user requests of different
\* SUPERADMINs included.
C20_SuperadminRemains ==
    \E i \in DOMAIN users : users[i].role = SUPERADMIN

-----------------------------------------------------------------------------
(* Properties of the stored accounts, checked under Spec *)

\* The registration carries an email (a username) that a stored user holds.
RegistrationCollides(user_data) ==
    \E i \in DOMAIN users :
        \/ users[i].email = user_data.email
        \/ users[i].username = user_data.username

\* C12 as stated: no two stored users share an email or a username, and every
\* register, self-update or privileged update that would set an email or a
\* username held by a different user is rejected with 400 and changes nothing.
C12_UniqueOrConflict ==
    /\ UsersUnique(users)
    /\ \A user_data \in UserCreate :
           RegistrationCollides(user_data) =>
               LET out == register(St, user_data)
               IN  out.resp.status = 400 /\ out.st = St
    /\ \A c \in Clients, body \in UserBodies :
           Authenticated(c) =>
               /\ \/ EmailHeldByOther(body, CallerId(c))
                  \/ UsernameHeldByOther(body, CallerId(c))
                  => LET out == update_current_user(St, c, body)
                     IN  out.resp.status = 400 /\ out.st = St
               /\ \A user_id \in DOMAIN users :
                      /\ Caller(c).role = SUPERADMIN
                      /\ \/ EmailHeldByOther(body, user_id)
                         \/ UsernameHeldByOther(body, user_id)
                      => LET out == update_user(St, c, user_id, body)
                         IN  out.resp.status = 400 /\ out.st = St

\* C13 as stated: a failed update_user leaves the store unchanged; the rules
\* are evaluated in the order email, username, role, password, the first
\* violated rule ends the request, and a request that violates a rule fails
\* with nothing of it persisted.
C13_FailFastNothingPersisted ==
    \A c \in Clients, body \in UserBodies :
        Authenticated(c) /\ Caller(c).role = SUPERADMIN =>
            \A user_id \in DOMAIN users :
                LET out == update_user(St, c, user_id, body)
                    is_self_update == user_id = CallerId(c)
                    email_rule == EmailHeldByOther(body, user_id)
                    username_rule == UsernameHeldByOther(body, user_id)
                    role_rule == body.role # Unset /\ is_self_update
                    password_rule ==
                        /\ body.password # NoPassword
                        /\ \/ ~is_self_update
                           \/ ~verify_password(body.password.current_password,
                                               Caller(c).hashed_password)
                IN  /\ out.resp.status # 200 => out.st = St
                    /\ email_rule \/ username_rule \/ role_rule \/ password_rule
                       => out.resp.status # 200 /\ out.st = St
                    /\ email_rule =>
                           out.resp.detail = "Email already registered"
                    /\ ~email_rule /\ username_rule =>
                           out.resp.detail # "Superadmin cannot change own role"
                    /\ ~email_rule /\ ~username_rule /\ role_rule =>
                           out.resp.detail = "Superadmin cannot change own role"

\* C14: the access_token cookie is cleared exactly when a self-update
\* succeeds.  After a successful PUT /users/me every request of the client to
\* an authenticated endpoint (and a refresh) gets 401 until a login of the
\* client succeeds; a self-update that fails, for a duplicate email in
\* particular, leaves cookie and store as they were; no other handler removes
\* a cookie.
C14_CookieClearedOnSelfUpdate ==
    \A c \in Clients :
        Authenticated(c) =>
            /\ \A body \in UserBodies :
                   LET out == update_current_user(St, c, body)
                   IN  /\ out.resp.status = 200 =>
                              /\ out.st.cookie[c] = NoToken
                              /\ get_current_user_profile(out.st, c).resp.status = 401
                              /\ update_current_user(out.st, c, body).resp.status = 401
                              /\ refresh(out.st, c).resp.status = 401
                              /\ \A user_id \in UserIds :
                                     update_user(out.st, c, user_id, body).resp.status = 401
                              /\ \A task_data \in TaskCreate :
                                     create_task(out.st, c, task_data).resp.status = 401
                              /\ \A login_data \in LoginRequest :
                                     LET again == login(out.st, c, login_data)
                                     IN  again.resp.status = 200 =>
                                             get_current_user_profile(again.st, c).resp.status = 200
                       /\ out.resp.status # 200 => out.st = St
                       /\ EmailHeldByOther(body, CallerId(c)) =>
                              /\ out.resp.status = 400
                              /\ out.resp.detail = "Email already registered"
                              /\ out.st = St
                       /\ \A user_id \in UserIds :
                              update_user(St, c, user_id, body).st.cookie[c] # NoToken
            /\ get_current_user_profile(St, c).st.cookie[c] # NoToken
            /\ refresh(St, c).st.cookie[c] # NoToken
            /\ \A login_data \in LoginRequest :
                   login(St, c, login_data).st.cookie[c] # NoToken
            /\ \A user_data \in UserCreate :
                   register(St, user_data).st.cookie[c] # NoToken
            /\ \A task_data \in TaskCreate :
                   create_task(St, c, task_data).st.cookie[c] # NoToken

\* C14 witness: a logged-in client's self-update succeeded and its cookie is
\* gone.
C14_Witness ==
    /\ resp.op = "update_current_user"
    /\ resp.status = 200
    /\ resp.access_token # NoToken
    /\ cookie[resp.client] = NoToken

\* C16 as stated: register stores the new user with the role of the request,
\* and with USER when the request supplies none.
C16_RegisterRole_AsStated ==
    \A user_data \in UserCreate :
        LET out == register(St, user_data)
        IN  out.resp.status = 200 =>
                out.st.users[NextId(users)].role =
                    IF user_data.role = Unset THEN USER ELSE user_data.role

\* C16 as amended: register stores the new user with role USER whatever role
\* the request supplies, and changes no other row.
C16_RegisterRole ==
    \A user_data \in UserCreate :
        LET out == register(St, user_data)
        IN  out.resp.status = 200 =>
                /\ DOMAIN out.st.users = DOMAIN users \cup {NextId(users)}
                /\ out.st.users[NextId(users)].role = USER
                /\ out.st.users[NextId(users)].email = user_data.email
                /\ \A i \in DOMAIN users : out.st.users[i] = users[i]

\* C16 witness: a registration has just succeeded and the row it added has
\* role USER.
C16_Witness ==
    /\ resp.op = "register"
    /\ resp.status = 200
    /\ Cardinality(DOMAIN users) > 1
    /\ users[Max(DOMAIN users)].role = USER
    /\ users[Max(DOMAIN users)].email # SeedUser.email

-----------------------------------------------------------------------------
(* Properties of role changes, checked under SpecRoles *)

\* The state in which client c presents the given token.
Presenting(st, c, token) == [st EXCEPT !.cookie[c] = token]

\* C15: a registered, logged-in user with role USER is refused task creation
\* with 403; once a logged-in SUPERADMIN has set that user's role to ADMIN
\* through update_user, the same user's create_task with an existing assignee
\* (and an unused title) succeeds, and the task created has the user's id as
\* author_id.
C15_PromotedUserCreates ==
    \A c, d \in Clients, task_data \in TaskCreate :
        /\ Authenticated(c) /\ Caller(c).role = USER
        /\ Authenticated(d) /\ Caller(d).role = SUPERADMIN
        => LET refused == create_task(St, c, task_data)
               promoted == update_user(St, d, CallerId(c),
                                       [EmptyBody EXCEPT !.role = ADMIN])
               created == create_task(promoted.st, c, task_data)
           IN  /\ refused.resp.status = 403
               /\ refused.st = St
               /\ promoted.resp.status = 200
               /\ promoted.st.users[CallerId(c)].role = ADMIN
               /\ /\ task_data.assignee_id \in DOMAIN users
                  /\ \A i \in DOMAIN tasks : tasks[i].title # task_data.title
                  => /\ created.resp.status = 200
                     /\ DOMAIN created.st.tasks = DOMAIN tasks \cup {NextId(tasks)}
                     /\ created.st.tasks[NextId(tasks)].author_id = CallerId(c)

\* C15 witness: the user registered through the API, still holding the token
\* of the login made as USER, has been promoted to ADMIN and has just created
\* a task, which carries the user's id as author_id.
C15_Witness ==
    /\ resp.op = "create_task"
    /\ resp.status = 200
    /\ resp.access_token.sub # 1
    /\ resp.access_token.role = USER
    /\ users[resp.access_token.sub].role = ADMIN
    /\ \E i \in DOMAIN tasks : tasks[i].author_id = resp.access_token.sub

\* C19: every authorization decision reads the caller's stored role, never
\* the role in the token.  With the token the client holds, and with the
\* token a refresh of it returns, create_task, update_task, delete_task and
\* update_user answer as they do for a token that carries the stored role;
\* a caller whose stored role is USER gets 403 from all four, and one whose
\* stored role is ADMIN gets 403 from update_user, nothing being changed.
C19_StoredRoleDecides ==
    \A c \in Clients :
        Authenticated(c) =>
            \A token \in {cookie[c], refresh(St, c).st.cookie[c]} :
                LET stale == Presenting(St, c, token)
                    fresh == Presenting(St, c,
                                 [token EXCEPT !.role = Caller(c).role])
                    Refused(out) == out.resp.status = 403 /\ out.st = stale
                    Alike(a, b) ==
                        /\ a.resp = b.resp
                        /\ a.st.users = b.st.users
                        /\ a.st.tasks = b.st.tasks
                IN  /\ token.sub = cookie[c].sub
                    /\ \A task_data \in TaskCreate :
                           /\ Alike(create_task(stale, c, task_data),
                                    create_task(fresh, c, task_data))
                           /\ Caller(c).role = USER =>
                                  Refused(create_task(stale, c, task_data))
                    /\ \A task_id \in TaskIds :
                           /\ Alike(delete_task(stale, c, task_id),
                                    delete_task(fresh, c, task_id))
                           /\ Caller(c).role = USER =>
                                  Refused(delete_task(stale, c, task_id))
                           /\ \A up_task \in TaskUpdate :
                                  /\ Alike(update_task(stale, c, task_id, up_task),
                                           update_task(fresh, c, task_id, up_task))
                                  /\ Caller(c).role = USER =>
                                         Refused(update_task(stale, c, task_id, up_task))
                    /\ \A user_id \in UserIds, body \in RoleBodies :
                           /\ Alike(update_user(stale, c, user_id, body),
                                    update_user(fresh, c, user_id, body))
                           /\ Caller(c).role # SUPERADMIN =>
                                  Refused(update_user(stale, c, user_id, body))

\* C19 witness: a user demoted to USER has just been refused with 403 on one
\* of the four operations while presenting a token issued when the stored role
\* was ADMIN or SUPERADMIN.
C19_Witness ==
    /\ resp.op \in {"create_task", "update_task", "delete_task", "update_user"}
    /\ resp.status = 403
    /\ resp.access_token.sig = KEY
    /\ resp.access_token.role \in {ADMIN, SUPERADMIN}
    /\ resp.access_token.sub \in DOMAIN users
    /\ users[resp.access_token.sub].role = USER

-----------------------------------------------------------------------------
(* Properties of comments, checked under SpecComments *)

\* C17 as stated: after any sequence of create_task, delete_task and
\* comment_to_task requests every stored comment's task_id is the id of a
\* stored task; comment_to_task with the id of no stored task fails with 404
\* and stores no comment.
C17_CommentsBelongToTasks ==
    /\ \A i \in DOMAIN comments : comments[i].task_id \in DOMAIN tasks
    /\ resp.op = "comment_to_task" /\ resp.status \notin {401, 404} =>
           /\ comments # <<>>
           /\ comments[Max(DOMAIN comments)].task_id \in DOMAIN tasks

-----------------------------------------------------------------------------
(* Properties of a shared token, checked under SpecSession *)

\* C18: a token issued before a self-update stays valid afterwards.  When
\* client c's PUT /users/me succeeds, whatever it changes, only c's cookie is
\* cleared: another holder d of the same token keeps it, and get_current_user
\* authenticates d's requests as that user at every time before the token's
\* embedded expiry.
C18_TokenSurvivesSelfUpdate ==
    \A c, d \in Clients, body \in UserBodies :
        c # d /\ Authenticated(c) /\ cookie[d] = cookie[c] =>
            LET token == cookie[c]
                out == update_current_user(St, c, body)
            IN  out.resp.status = 200 =>
                    /\ out.st.cookie[c] = NoToken
                    /\ out.st.cookie[d] = token
                    /\ \A t \in ClockSamples :
                           t >= now /\ t < ExpiryInstant(token) =>
                               LET later == [out.st EXCEPT !.now = t]
                               IN  /\ get_current_user_profile(later, d).resp.status = 200
                                   /\ get_current_user(later.cookie[d], later.users, t).id
                                          = token.sub

\* C18 witness: the owner's self-update changed the email and cleared the
\* cookie of client c1; later client c2 presented its copy of the token and
\* was authenticated as that user.
C18_Witness ==
    /\ resp.op = "get_current_user_profile"
    /\ resp.status = 200
    /\ resp.client = "c2"
    /\ cookie["c1"] = NoToken
    /\ resp.access_token.sub = 1
    /\ users[1].email # SeedUser.email
    /\ now > resp.access_token.iat * TicksPerSecond

-----------------------------------------------------------------------------
(* Properties of the stored roles, checked under SpecRoles *)

\* The handler left every stored user in place with the role it had.
RolesKept(out) ==
    \A i \in DOMAIN users :
        /\ i \in DOMAIN out.st.users
        /\ out.st.users[i].role = users[i].role

\* C21: the stored role of an existing user changes only in a successful
\* update_user request whose caller has stored role SUPERADMIN and whose
\* target is another user, and then to the role the request supplies;
\* register, login, refresh, GET and PUT /users/me and every task and comment
\* request leave every stored role as it was, so nobody changes their own role.
C21_RoleChangesOnlyByOtherSuperadmin ==
    /\ \A user_data \in UserCreate : RolesKept(register(St, user_data))
    /\ \A c \in Clients :
           /\ \A login_data \in LoginRequest : RolesKept(login(St, c, login_data))
           /\ RolesKept(refresh(St, c))
           /\ RolesKept(get_current_user_profile(St, c))
           /\ \A task_data \in TaskCreate : RolesKept(create_task(St, c, task_data))
           /\ \A task_id \in TaskIds :
                  /\ RolesKept(delete_task(St, c, task_id))
                  /\ RolesKept(comment_to_task(St, c, task_id))
                  /\ \A up_task \in TaskUpdate :
                         RolesKept(update_task(St, c, task_id, up_task))
           /\ \A body \in UserBodies :
                  /\ RolesKept(update_current_user(St, c, body))
                  /\ \A user_id \in UserIds :
                         LET out == update_user(St, c, user_id, body)
                         IN  /\ DOMAIN out.st.users = DOMAIN users
                             /\ \A i \in DOMAIN users :
                                    out.st.users[i].role # users[i].role =>
                                        /\ out.resp.status = 200
                                        /\ Authenticated(c)
                                        /\ Caller(c).role = SUPERADMIN
                                        /\ i = user_id
                                        /\ i # CallerId(c)
                                        /\ out.st.users[i].role = body.role

\* C21 witness: the SUPERADMIN's update_user request for another user has just
\* succeeded, and that user, registered as USER, now has another role, while
\* the caller's own role is what it was.
C21_Witness ==
    /\ resp.op = "update_user"
    /\ resp.status = 200
    /\ resp.access_token.sub = 1
    /\ users[1].role = SUPERADMIN
    /\ 2 \in DOMAIN users
    /\ users[2].role # USER

====
